---- MODULE Spec2Model ----
(***************************************************************************)
(* Model of byre's greedy planner (src/byre/planning.py): the capacity     *)
(* clamp, the grouping of held torrents that share files, the             *)
(* per-directory downloader closures and Planner.plan / Planner.estimate. *)
(*                                                                         *)
(* Sizes and scores are floats in the program; here they are integers     *)
(* (scores scaled by 10).  A held torrent's hash is its position in        *)
(* scored_local; a download directory is its position in Planner.configs  *)
(* (directories are compared as strings by sorted(), here as integers).   *)
(***************************************************************************)
EXTENDS Integers, Sequences, FiniteSets, TLC

VARIABLES
    configured,     \* the PlannerConfig values as MainCommand.configure loaded them
    configs,        \* Planner.configs: sequence of PlannerConfig records
    scored_local,   \* argument of plan: held torrents with their retain score
    remote,         \* argument of plan: candidates with their acquire score
    exists,         \* argument of plan
    pc,             \* position of the caller: "call", "loop", "returned", "raised", "clamp", "clamped"
    used_spaces,    \* used_spaces of plan (per directory, 0 where the dict has no key)
    local,          \* local of plan: per directory, the hashes of its torrents
    duplicates,     \* duplicates of plan: per hash, the hashes sharing its files
    planners,       \* per directory: the closure variables downloaded, i, remaining
    k,              \* index of the next candidate of the loop of plan
    removable,      \* plan's eviction list
    downloadable,   \* plan's acquisition list
    run,            \* 1 during the first call of plan, 2 during the repeated call
    first,          \* the lists returned by the first call
    table,          \* TorrentStore: the rows of the torrent table
    saved,          \* TorrentStore.save_torrent: the calls so far (row, returned value, table before and after)
    hashed,         \* TorrentStore.hash_paths: two dicts of paths and their digests
    scored,         \* Scorer: the scorer, the torrent and the score returned
    client          \* NexusClient: the call stack of get, the value returned or raised to its top frame

\* The variables of the store, of hash_paths, of the scorer and of the client.
auxVars == <<table, saved, hashed, scored, client>>

vars == <<configured, configs, scored_local, remote, exists, pc, used_spaces, local, duplicates, planners, k,
          removable, downloadable, run, first, table, saved, hashed, scored, client>>

\* A client that was asked for nothing.
ClientIdle == [stack |-> <<>>, signal |-> "none", requests |-> 0, retries |-> 0]

----
\* Bounds of the model.
MaxHeld == 2
MaxCand == 2
MaxSpace == 60
MaxSaves == 3
MaxFiles == 2

\* Program constants: math.inf, the lifted max_download_size (1e15) and the
\* sort key of protected torrents (1 << 31), each far above every size and
\* score of the model.
Inf == 1000000
TargetDownloadSize == 100000000
SortLast == 2147483647

Min(a, b) == IF a < b THEN a ELSE b

RECURSIVE SumSeq(_)
SumSeq(s) == IF s = <<>> THEN 0 ELSE Head(s) + SumSeq(Tail(s))

----
\* The free field of a directory whose psutil.disk_usage call raises
\* (OSError: the path is missing or unreadable).
DiskError == -1

\* PlannerConfig.get_disk_remaining raises for this directory.
QueryFails(config) == config.free = DiskError

\* PlannerConfig.get_disk_remaining: the free space of the directory's disk.
get_disk_remaining(config) == config.free

\* clamp that keeps the headroom instead of the limit.
clamp_headroom(config, used) ==
    LET max_total_size == used + get_disk_remaining(config)
    IN  (IF config.max_total_size > 0
         THEN Min(max_total_size, config.max_total_size)
         ELSE max_total_size) - used

\* clamp that forgets the used space.
clamp_free_only(config, used) ==
    LET max_total_size == get_disk_remaining(config)
    IN  IF config.max_total_size > 0
        THEN Min(max_total_size, config.max_total_size)
        ELSE max_total_size

\* PlannerConfig.clamp: the new max_total_size.
clamp(config, used) ==
    LET disk_remaining == get_disk_remaining(config)
        max_total_size == used + disk_remaining
    IN  IF config.max_total_size > 0
        THEN Min(max_total_size, config.max_total_size)
        ELSE max_total_size

\* PlannerConfig.is_under_current_dir: directories are disjoint, a held
\* torrent lies under the directory numbered by its part field (0: none).
is_under_current_dir(p, t) == t.part = p

----
\* Planner.merge_torrent_info.  The dictionaries total, local and
\* path_torrents are functions; an absent key is 0 or the empty sequence.
NoMerge(np, sl) ==
    [ total |-> [p \in 1..np |-> 0],
      local |-> [p \in 1..np |-> <<>>],
      path_torrents |-> [f \in {sl[n].fp : n \in 1..Len(sl)} |-> <<>>] ]

\* One iteration of the loop over zip(local_torrents, cached) for torrent n.
MergeStep(acc, np, sl, n) ==
    LET torrent == sl[n]
        path_hash == torrent.fp
    IN  IF \E p \in 1..np : is_under_current_dir(p, torrent)
        THEN LET dir == CHOOSE p \in 1..np :
                            /\ is_under_current_dir(p, torrent)
                            /\ \A q \in 1..(p - 1) : ~is_under_current_dir(q, torrent)
             IN  [ path_torrents |-> [acc.path_torrents EXCEPT ![path_hash] = Append(@, n)],
                   total |-> IF acc.path_torrents[path_hash] # <<>>
                             THEN acc.total
                             ELSE [acc.total EXCEPT ![dir] = @ + torrent.size],
                   local |-> [acc.local EXCEPT ![dir] = Append(@, n)] ]
        ELSE acc

RECURSIVE MergeLoop(_, _, _, _)
MergeLoop(acc, np, sl, n) ==
    IF n > Len(sl) THEN acc ELSE MergeLoop(MergeStep(acc, np, sl, n), np, sl, n + 1)

\* The duplicates dictionary with an empty list for every torrent.
DuplicatesEmpty(path_torrents) ==
    LET grouped == UNION {{path_torrents[f][x] : x \in 1..Len(path_torrents[f])} : f \in DOMAIN path_torrents}
    IN  [h \in grouped |-> {}]

\* The duplicates dictionary: for each grouped torrent, the other torrents
\* listed under the same path_hash.
Duplicates(path_torrents) ==
    LET grouped == UNION {{path_torrents[f][x] : x \in 1..Len(path_torrents[f])} : f \in DOMAIN path_torrents}
        group(h) == LET f == CHOOSE f \in DOMAIN path_torrents :
                                \E x \in 1..Len(path_torrents[f]) : path_torrents[f][x] = h
                    IN  {path_torrents[f][x] : x \in 1..Len(path_torrents[f])}
    IN  [h \in grouped |-> group(h) \ {h}]

merge_torrent_info(np, sl) ==
    LET acc == MergeLoop(NoMerge(np, sl), np, sl, 1)
    IN  [ total |-> acc.total, local |-> acc.local,
          duplicates |-> Duplicates(acc.path_torrents) ]

\* removable_hashes of plan: hash -> retain score of every torrent of local.
removable_hashes(sl, h) == sl[h].score

RECURSIVE SumHashes(_, _)
SumHashes(sl, S) ==
    IF S = {} THEN 0
    ELSE LET h == CHOOSE h \in S : TRUE
         IN  removable_hashes(sl, h) + SumHashes(sl, S \ {h})

----
\* PlannerConfig.downloader: the fresh closure state.
downloader(remaining) == [downloaded |-> 0, i |-> 0, remaining |-> remaining]

\* The closure's scored_local: the torrents of the directory from site byr.
ByrLocal(sl, dir_local) == SelectSeq(dir_local, LAMBDA h : sl[h].site = "byr")

\* The size check with >= for >.
OverDownloadSizeOrEqual(downloaded, file_size, max_download_size) ==
    downloaded + file_size >= max_download_size

\* The score check left out.
ZeroScoreIgnored(score) == FALSE

\* The check of the torrents sharing files left out.
SharedIgnored(sl, dups) == FALSE

\* try_download, the checks before the scan.
OverDownloadSize(downloaded, file_size, max_download_size) ==
    downloaded + file_size > max_download_size

ZeroScore(score) == score = 0

Direct(file_size, self_remaining, ex) == file_size < self_remaining \/ ex

\* try_download, the tests of the scan.
Unremovable(torrent_score, score) == torrent_score >= score \/ torrent_score < 0

SharedUnremovable(sl, dups) == \E t \in dups : removable_hashes(sl, t) < 0

TooValuable(torrent_score, score) == torrent_score >= score

Enough(file_size, removable_size, remaining) == file_size < removable_size + remaining

\* The for loop of try_download over enumerate(scored_local[i:]), from
\* position j of the slice.  status "none": return None inside the loop;
\* "else": the loop ended without break; "break": j, removable_size and
\* removable at the break.
RECURSIVE Scan(_, _, _, _, _, _, _, _, _)
Scan(sl, dups, slice, j, candidate, score, removable_size, rm, remaining) ==
    IF j >= Len(slice) THEN [status |-> "else"]
    ELSE LET torrent == slice[j + 1]
             torrent_score == sl[torrent].score
         IN  IF Unremovable(torrent_score, score)
             THEN Scan(sl, dups, slice, j + 1, candidate, score, removable_size, rm, remaining)
             ELSE IF SharedUnremovable(sl, dups[torrent])
             THEN Scan(sl, dups, slice, j + 1, candidate, score, removable_size, rm, remaining)
             ELSE LET shared_score == torrent_score + SumHashes(sl, dups[torrent])
                      size2 == removable_size + sl[torrent].size
                      rm2 == Append(rm, <<torrent, shared_score>>)
                  IN  IF TooValuable(shared_score, score) THEN [status |-> "none"]
                      ELSE IF Enough(candidate.file_size, size2, remaining)
                      THEN [status |-> "break", j |-> j, removable_size |-> size2, removable |-> rm2]
                      ELSE Scan(sl, dups, slice, j + 1, candidate, score, size2, rm2, remaining)

\* The closure's cursor after a commit.
NextCursor(i, j) == j + 1

\* try_download for one directory: st is the closure state, config the
\* PlannerConfig.  Result: plan is <<>> for None, else <<(size, removable)>>;
\* st and self_remaining are the closure state and config.remaining after
\* the call.
try_download(sl, dups, byr_local, st, config, candidate, score, ex) ==
    LET unchanged == [plan |-> <<>>, st |-> st, self_remaining |-> config.remaining]
    IN  IF OverDownloadSize(st.downloaded, candidate.file_size, config.max_download_size)
        THEN unchanged
        ELSE IF ZeroScore(score) THEN unchanged
        ELSE IF Direct(candidate.file_size, config.remaining, ex)
        THEN IF ~ex
             THEN [ plan |-> << <<0, <<>> >> >>,
                    st |-> [st EXCEPT !.downloaded = @ + candidate.file_size],
                    self_remaining |-> config.remaining - candidate.file_size ]
             ELSE [unchanged EXCEPT !.plan = << <<0, <<>> >> >>]
        ELSE LET slice == SubSeq(byr_local, st.i + 1, Len(byr_local))
                 r == Scan(sl, dups, slice, 0, candidate, score, 0, <<>>, st.remaining)
             IN  IF r.status # "break" THEN unchanged
                 ELSE [ plan |-> << <<candidate.file_size, r.removable>> >>,
                        st |-> [ downloaded |-> st.downloaded + candidate.file_size,
                                 i |-> NextCursor(st.i, r.j),
                                 remaining |-> st.remaining + r.removable_size - candidate.file_size ],
                        self_remaining |-> config.remaining ]

----
\* Planner.plan.
NP == Len(configs)

Merged == merge_torrent_info(NP, scored_local)

\* Line 154 reads local[config.download_dir] for every config: a KeyError
\* when a directory holds no torrent.
MissingLocal(loc) == \E p \in DOMAIN loc : loc[p] = <<>>

\* The key sorted() orders the plans of one candidate by.
PlanKey(plan, directory) == <<plan[1], SumSeq([x \in 1..Len(plan[2]) |-> plan[2][x][2]]), directory>>

KeyLess(a, b) ==
    \/ a[1] < b[1]
    \/ a[1] = b[1] /\ a[2] < b[2]
    \/ a[1] = b[1] /\ a[2] = b[2] /\ a[3] < b[3]

\* The directory of sorted([...])[0], plans being the dict of the plans.
Chosen(plans) ==
    CHOOSE d \in DOMAIN plans :
        \A e \in DOMAIN plans \ {d} : KeyLess(PlanKey(plans[d], d), PlanKey(plans[e], e))

\* plan, lines 150-154, when line 154 raises.
PlanRaise ==
    /\ pc = "call"
    /\ MissingLocal(Merged.local)
    /\ pc' = "raised"
    /\ UNCHANGED <<configured, configs, scored_local, remote, exists, used_spaces, local, duplicates, planners, k,
                   removable, downloadable, run, first>>
    /\ UNCHANGED auxVars

\* plan, lines 150-158, when config.clamp raises out of get_disk_remaining:
\* the directories before the failing one are already clamped, nothing
\* catches the exception.
PlanDiskRaise ==
    /\ pc = "call"
    /\ ~MissingLocal(Merged.local)
    /\ \E f \in 1..NP :
           /\ QueryFails(configs[f])
           /\ \A p \in 1..(f - 1) : ~QueryFails(configs[p])
           /\ configs' = [p \in 1..NP |->
                             IF p < f
                             THEN [configs[p] EXCEPT !.max_total_size = clamp(configs[p], Merged.total[p])]
                             ELSE configs[p]]
    /\ pc' = "disk_raised"
    /\ UNCHANGED <<configured, scored_local, remote, exists, used_spaces, local, duplicates, planners, k,
                   removable, downloadable, run, first>>
    /\ UNCHANGED auxVars

\* plan, lines 150-167: grouping, clamp and one downloader per directory.
PlanStart ==
    /\ pc = "call"
    /\ LET merged == Merged
           clamped == [p \in 1..NP |-> [configs[p] EXCEPT !.max_total_size = clamp(configs[p], merged.total[p])]]
       IN  /\ ~MissingLocal(merged.local)
           /\ \A p \in 1..NP : ~QueryFails(configs[p])
           /\ configs' = clamped
           /\ used_spaces' = merged.total
           /\ local' = merged.local
           /\ duplicates' = merged.duplicates
           /\ planners' = [p \in 1..NP |-> downloader(clamped[p].max_total_size - merged.total[p])]
    /\ k' = 1
    /\ removable' = <<>>
    /\ downloadable' = <<>>
    /\ pc' = "loop"
    /\ UNCHANGED <<configured, scored_local, remote, exists, run, first>>
    /\ UNCHANGED auxVars

\* The downloaders called with the score of the first candidate.
TriedFirstScore ==
    [p \in 1..NP |->
        try_download(scored_local, duplicates, ByrLocal(scored_local, local[p]),
                     planners[p], configs[p], remote[k], remote[1].score, exists)]

\* The calls of the downloaders for candidate k (lines 169-173), as the
\* function from directory to the result of its try_download.
Tried ==
    [p \in 1..NP |->
        try_download(scored_local, duplicates, ByrLocal(scored_local, local[p]),
                     planners[p], configs[p], remote[k], remote[k].score, exists)]

\* plan, one iteration of the loop over remote (lines 168-181).  An entry
\* of removable also records the candidate it was removed for.
PlanCandidate ==
    /\ pc = "loop"
    /\ k <= Len(remote)
    /\ LET tried == Tried
           hosts == {p \in 1..NP : tried[p].plan # <<>>}
           plans == [p \in hosts |-> tried[p].plan[1]]
       IN  /\ planners' = [p \in 1..NP |-> tried[p].st]
           /\ configs' = [p \in 1..NP |-> [configs[p] EXCEPT !.remaining = tried[p].self_remaining]]
           /\ IF hosts = {}
              THEN UNCHANGED <<removable, downloadable>>
              ELSE LET directory == Chosen(plans)
                       rm_list == plans[directory][2]
                   IN  /\ removable' = removable \o
                              [x \in 1..Len(rm_list) |->
                                  [torrent |-> rm_list[x][1], directory |-> directory, candidate |-> k]]
                       /\ downloadable' = Append(downloadable, [candidate |-> k, directory |-> directory])
    /\ k' = k + 1
    /\ UNCHANGED <<configured, scored_local, remote, exists, pc, used_spaces, local, duplicates, run, first>>
    /\ UNCHANGED auxVars

\* plan, line 182.
PlanReturn ==
    /\ pc = "loop"
    /\ k > Len(remote)
    /\ pc' = "returned"
    /\ first' = IF run = 1 THEN <<removable, downloadable>> ELSE first
    /\ UNCHANGED <<configured, configs, scored_local, remote, exists, used_spaces, local, duplicates, planners, k,
                   removable, downloadable, run>>
    /\ UNCHANGED auxVars

\* The caller plans again on the same snapshot without executing the plan.
PlanAgain ==
    /\ pc = "returned"
    /\ run = 1
    /\ run' = 2
    /\ pc' = "call"
    /\ UNCHANGED <<configured, configs, scored_local, remote, exists, used_spaces, local, duplicates, planners, k,
                   removable, downloadable, first>>
    /\ UNCHANGED auxVars

\* Planner.estimate for directory p on the returned lists.
estimate(p) ==
    LET used_space == Merged.total[p]
        deleted == SelectSeq(removable, LAMBDA r : is_under_current_dir(p, scored_local[r.torrent]))
        downloaded == IF exists THEN <<>> ELSE SelectSeq(downloadable, LAMBDA d : d.directory = p)
        downloaded_size == SumSeq([x \in 1..Len(downloaded) |-> remote[downloaded[x].candidate].file_size])
        deleted_size == SumSeq([x \in 1..Len(deleted) |-> scored_local[deleted[x].torrent].size])
    IN  [ before |-> used_space, to_be_deleted |-> deleted_size,
          to_be_downloaded |-> downloaded_size,
          after |-> used_space - deleted_size + downloaded_size ]

----
\* The inputs.  Planner.configs has one or two directories.
DirCounts == {1, 2}
DownloadSizes == {5}
HeldSizes == <<2, 3>>
CandSizes == {2, 4}
RetainScores == {-1, 1, 2}
AcquireScores == {0, 2, 3}

\* A held torrent: part is the directory it lies under, fp its path_hash;
\* torrents with the same files have the same size.
HeldKinds ==
    {[part |-> p, fp |-> f, size |-> HeldSizes[f], score |-> s, site |-> "byr"] :
        p \in DirCounts, f \in 1..Len(HeldSizes), s \in RetainScores}
    \cup {[part |-> 1, fp |-> 2, size |-> HeldSizes[2], score |-> 1, site |-> "tju"]}

\* A candidate; the size of a candidate of score 0 plays no role.
CandKinds ==
    {[file_size |-> z, score |-> s] : z \in CandSizes, s \in AcquireScores \ {0}}
    \cup {[file_size |-> 2, score |-> 0]}

\* A directory's limits and the free space of its disk: no configured limit
\* on a full disk, or a configured limit of 4 (below, at or above the used
\* space, as the held torrents make it) with free space 3.
ConfigKinds ==
    {[max_total_size |-> c[1], max_download_size |-> d, remaining |-> 0, free |-> c[2]] :
        c \in {<<0, 0>>, <<4, 3>>}, d \in DownloadSizes}

\* The same with max_download_size lifted, and also a disk with free space
\* and no configured limit.
TargetConfigKinds ==
    {[max_total_size |-> c[1], max_download_size |-> TargetDownloadSize, remaining |-> 0, free |-> c[2]] :
        c \in {<<0, 0>>, <<0, 3>>, <<4, 3>>}}

\* MainCommand._gather_local_info sorts the held torrents by this key.
SortKey(score) == IF score >= 0 THEN score ELSE SortLast

SortedLocal(sl) == \A x \in 1..(Len(sl) - 1) : SortKey(sl[x].score) <= SortKey(sl[x + 1].score)

\* MainCommand._fetch_candidates sorts the candidates by descending score.
SortedRemote(r) == \A x \in 1..(Len(r) - 1) : r[x].score >= r[x + 1].score

SeqsUpTo(S, n) == UNION {[1..m -> S] : m \in 0..n}

\* MainCommand.download without target: fetched candidates, caps as configured.
InitFetch ==
    /\ \E np \in DirCounts : configs \in [1..np -> ConfigKinds]
    /\ scored_local \in {sl \in SeqsUpTo(HeldKinds, MaxHeld) : SortedLocal(sl)}
    /\ \A x \in 1..Len(scored_local) : scored_local[x].part <= Len(configs)
    /\ remote \in {r \in SeqsUpTo(CandKinds, MaxCand) : SortedRemote(r)}
    /\ exists = FALSE

\* MainCommand.download with a target: one candidate of infinite score and
\* max_download_size lifted.
InitTarget ==
    /\ \E np \in DirCounts :
          configs \in [1..np -> TargetConfigKinds]
    /\ scored_local \in {sl \in SeqsUpTo(HeldKinds, MaxHeld) : SortedLocal(sl)}
    /\ \A x \in 1..Len(scored_local) : scored_local[x].part <= Len(configs)
    /\ remote \in {<<[file_size |-> z, score |-> Inf]>> : z \in CandSizes}
    /\ exists \in BOOLEAN

\* A longer sweep: three removable byr torrents that share no files, three
\* candidates of positive score, full disks without configured limit, with
\* the configured or a wide max_download_size.
SweepKinds(np) ==
    {[part |-> p, fp |-> 0, size |-> z, score |-> s, site |-> "byr"] :
        p \in 1..np, z \in {3, 4}, s \in RetainScores \ {-1}}

InitSweep ==
    /\ \E np \in DirCounts, d \in DownloadSizes \cup {MaxSpace} :
          /\ configs = [p \in 1..np |-> [max_total_size |-> 0, max_download_size |-> d,
                                          remaining |-> 0, free |-> 0]]
          /\ \E b \in [1..3 -> SweepKinds(np)] :
                scored_local = [x \in 1..3 |-> [b[x] EXCEPT !.fp = 10 + x]]
    /\ SortedLocal(scored_local)
    /\ remote \in {r \in [1..3 -> {c \in CandKinds : c.score > 0}] : SortedRemote(r)}
    /\ exists = FALSE

\* Scenario A of the specification, in GB and scores times 10: H1, H2, H3
\* and a fourth protected torrent that brings the used space to 90.
InitScenarioA ==
    /\ configs \in {<<[max_total_size |-> 100, max_download_size |-> d, remaining |-> 0, free |-> f]>> :
                        d \in {25, 50}, f \in {10, 40}}
    /\ scored_local \in
          { <<[part |-> 1, fp |-> 21, size |-> 20, score |-> 1, site |-> "byr"],
              [part |-> 1, fp |-> 22, size |-> 5, score |-> 5, site |-> "byr"],
              [part |-> 1, fp |-> 22, size |-> 5, score |-> -1, site |-> "byr"],
              [part |-> 1, fp |-> 23, size |-> 65, score |-> -1, site |-> w]>> : w \in {"byr", "tju"} }
    /\ remote = <<[file_size |-> 25, score |-> 8]>>
    /\ exists = FALSE

\* Planner.plan called with exists for a scored candidate list: one
\* directory, the files of every candidate are already on disk.
InitExisting ==
    /\ configs \in [1..1 -> ConfigKinds]
    /\ scored_local \in {sl \in SeqsUpTo({t \in HeldKinds : t.part = 1}, MaxHeld) : SortedLocal(sl)}
    /\ remote \in {r \in SeqsUpTo(CandKinds, MaxCand) : SortedRemote(r)}
    /\ exists = TRUE

\* Nothing stored, hashed or scored.
AuxIdle ==
    /\ table = {}
    /\ saved = <<>>
    /\ hashed = <<>>
    /\ scored = <<>>
    /\ client = ClientIdle

\* Directories of which at least one has a disk that cannot be queried;
\* every directory holds a torrent.
InitDiskFailure ==
    /\ \E np \in DirCounts :
           /\ configs \in {c \in [1..np -> ConfigKinds \cup {[x EXCEPT !.free = DiskError] : x \in ConfigKinds}] :
                               \E p \in 1..np : QueryFails(c[p])}
           /\ scored_local \in {sl \in SeqsUpTo({t \in HeldKinds : t.part \in 1..np /\ t.score = 1}, MaxHeld) :
                                     /\ SortedLocal(sl)
                                     /\ \A p \in 1..np : \E x \in 1..Len(sl) : sl[x].part = p}
    /\ remote \in {r \in SeqsUpTo(CandKinds, 1) : SortedRemote(r)}
    /\ exists = FALSE

\* A fetched list with a candidate whose size cell could not be read
\* (file_size 0.); one directory.
InitZeroSize ==
    /\ configs \in [1..1 -> ConfigKinds]
    /\ scored_local \in {sl \in SeqsUpTo({t \in HeldKinds : t.part = 1}, MaxHeld) : SortedLocal(sl)}
    /\ remote \in {r \in SeqsUpTo({[file_size |-> 0, score |-> 2], [file_size |-> 2, score |-> 3]}, MaxCand) :
                      /\ SortedRemote(r)
                      /\ \E x \in 1..Len(r) : r[x].file_size = 0}
    /\ exists = FALSE

InitRest ==
    /\ configured = configs
    /\ pc = "call"
    /\ used_spaces = [p \in 1..Len(configs) |-> 0]
    /\ local = [p \in 1..Len(configs) |-> <<>>]
    /\ duplicates = <<>>
    /\ planners = [p \in 1..Len(configs) |-> downloader(0)]
    /\ k = 1
    /\ removable = <<>>
    /\ downloadable = <<>>
    /\ run = 1
    /\ first = <<>>
    /\ AuxIdle

Init ==
    (InitFetch \/ InitTarget \/ InitExisting \/ InitSweep \/ InitScenarioA \/ InitZeroSize
        \/ InitDiskFailure) /\ InitRest

Next == PlanRaise \/ PlanDiskRaise \/ PlanStart \/ PlanCandidate \/ PlanReturn \/ PlanAgain

Spec == Init /\ [][Next]_vars

----
\* PlannerConfig.clamp on its own, for a wide range of limits, used and
\* free space.
ClampCall ==
    /\ pc = "clamp"
    /\ configs' = [p \in 1..Len(configs) |->
                      [configs[p] EXCEPT !.max_total_size = clamp(configs[p], used_spaces[p])]]
    /\ pc' = "clamped"
    /\ UNCHANGED <<configured, scored_local, remote, exists, used_spaces, local, duplicates, planners, k,
                   removable, downloadable, run, first>>
    /\ UNCHANGED auxVars

InitClamp ==
    /\ configs \in {<<[max_total_size |-> c, max_download_size |-> 0, remaining |-> 0, free |-> f]>> :
                        c \in 0..MaxSpace, f \in 0..MaxSpace}
    /\ configured = configs
    /\ used_spaces \in [1..1 -> 0..MaxSpace]
    /\ local = <<(<<>>)>>
    /\ duplicates = <<>>
    /\ scored_local = <<>>
    /\ remote = <<>>
    /\ exists = FALSE
    /\ pc = "clamp"
    /\ planners = <<downloader(0)>>
    /\ k = 1
    /\ removable = <<>>
    /\ downloadable = <<>>
    /\ run = 1
    /\ first = <<>>
    /\ AuxIdle

SpecClamp == InitClamp /\ [][ClampCall]_vars

----
\* The planner at rest, for the specifications of the other components.
PlannerIdle ==
    /\ configs = <<>>
    /\ configured = configs
    /\ scored_local = <<>>
    /\ remote = <<>>
    /\ exists = FALSE
    /\ used_spaces = <<>>
    /\ local = <<>>
    /\ duplicates = <<>>
    /\ planners = <<>>
    /\ k = 1
    /\ removable = <<>>
    /\ downloadable = <<>>
    /\ run = 1
    /\ first = <<>>

plannerVars == <<configured, configs, scored_local, remote, exists, used_spaces, local, duplicates, planners, k,
                 removable, downloadable, run, first>>

----
\* TorrentStore (src/byre/storage.py).  A row of the torrent table is a
\* TorrentDO; the values are those of test_duplicate_torrents.
TorrentDO ==
    [hash : {"hash", "a"}, name : {"name"}, path_hash : {"path_hash", "c"},
     site : {"site_A", "d"}, seed_id : {1234, 1}]

\* The table without its index on (path_hash, site).
uk_path_hash_dropped(rows, torrent) == FALSE

\* TorrentStore.migrate: the primary key and the two unique indexes of the
\* table, each as the test whether inserting torrent would break it.
primary_key(rows, torrent) == \E r \in rows : r.hash = torrent.hash

uk_path_hash(rows, torrent) ==
    \E r \in rows : r.path_hash = torrent.path_hash /\ r.site = torrent.site

uk_site_seed_id(rows, torrent) ==
    \E r \in rows : r.site = torrent.site /\ r.seed_id = torrent.seed_id

\* The INSERT of save_torrent raises sqlite3.IntegrityError, a DatabaseError.
DatabaseError(rows, torrent) ==
    \/ primary_key(rows, torrent)
    \/ uk_path_hash(rows, torrent)
    \/ uk_site_seed_id(rows, torrent)

\* TorrentStore.save_torrent: the table after the call and the value returned
\* (commit and True, or rollback and False).
save_torrent(rows, torrent) ==
    IF DatabaseError(rows, torrent)
    THEN [rows |-> rows, returned |-> FALSE]
    ELSE [rows |-> rows \cup {torrent}, returned |-> TRUE]

SaveTorrent ==
    /\ pc = "store"
    /\ Len(saved) < MaxSaves
    /\ \E torrent \in TorrentDO :
          LET r == save_torrent(table, torrent)
          IN  /\ table' = r.rows
              /\ saved' = Append(saved, [torrent |-> torrent, returned |-> r.returned,
                                         before |-> table, after |-> r.rows])
    /\ UNCHANGED <<plannerVars, pc, hashed, scored, client>>

\* A store whose table was just created by migrate.
InitStore ==
    /\ PlannerIdle
    /\ pc = "store"
    /\ table = {}
    /\ saved = <<>>
    /\ hashed = <<>>
    /\ scored = <<>>
    /\ client = ClientIdle

SpecStore == InitStore /\ [][SaveTorrent]_vars

----
\* TorrentStore.hash_paths.  A str is the sequence of its code points (all
\* below 128 here, so that encode("utf-8") changes nothing and sorted()
\* compares them one by one); a dict of paths is a function from its keys to
\* the sizes.
NUL == 0
Space == 32
Slash == 47
Zero == 48
Backslash == 92

\* The keys: "a", "b", "a/b", "a\b" and "a 1<NUL>b".
PathNames ==
    { <<97>>, <<98>>, <<97, Slash, 98>>, <<97, Backslash, 98>>, <<97, Space, 49, NUL, 98>> }

FileSizes == {1, 2, 12}

\* no_backslash of hash_paths: s.replace("\\", "/").
no_backslash(s) == [x \in 1..Len(s) |-> IF s[x] = Backslash THEN Slash ELSE s[x]]

\* The decimal digits of a natural number, as f"{size}" writes them.
RECURSIVE str(_)
str(n) == IF n < 10 THEN <<Zero + n>> ELSE str(n \div 10) \o <<Zero + (n % 10)>>

\* f"{no_backslash(path)} {size}".encode("utf-8")
Entry(path, size) == no_backslash(path) \o <<Space>> \o str(size)

\* The order of bytes objects.
RECURSIVE BytesLeq(_, _)
BytesLeq(a, b) ==
    IF a = <<>> THEN TRUE
    ELSE IF b = <<>> THEN FALSE
    ELSE IF Head(a) # Head(b) THEN Head(a) < Head(b)
    ELSE BytesLeq(Tail(a), Tail(b))

\* sorted(...) over the items of the dict.
SortedEntries(paths) ==
    LET n == Cardinality(DOMAIN paths)
        order == CHOOSE o \in [1..n -> DOMAIN paths] :
                    /\ \A x, y \in 1..n : x # y => o[x] # o[y]
                    /\ \A x \in 1..(n - 1) :
                          BytesLeq(Entry(o[x], paths[o[x]]), Entry(o[x + 1], paths[o[x + 1]]))
    IN  [x \in 1..n |-> Entry(order[x], paths[order[x]])]

\* b"\0".join(...)
RECURSIVE Join(_)
Join(entries) ==
    IF entries = <<>> THEN <<>>
    ELSE IF Len(entries) = 1 THEN entries[1]
    ELSE entries[1] \o <<NUL>> \o Join(Tail(entries))

\* hashlib.sha256(...).hexdigest().lower(): taken as injective, the digest
\* stands for the bytes hashed.
sha256(bytes) == bytes

hash_paths(paths) == sha256(Join(SortedEntries(paths)))

\* The dicts of at most MaxFiles paths.
Manifests ==
    UNION {[K -> FileSizes] : K \in {K \in SUBSET PathNames : Cardinality(K) <= MaxFiles}}

HashPaths ==
    /\ pc = "hash"
    /\ hashed' = [hashed EXCEPT !.h1 = hash_paths(hashed.m1), !.h2 = hash_paths(hashed.m2)]
    /\ pc' = "hashed"
    /\ UNCHANGED <<plannerVars, table, saved, scored, client>>

InitHash ==
    /\ PlannerIdle
    /\ pc = "hash"
    /\ table = {}
    /\ saved = <<>>
    /\ hashed \in [m1 : Manifests, m2 : Manifests, h1 : {<<>>}, h2 : {<<>>}]
    /\ scored = <<>>
    /\ client = ClientIdle

SpecHash == InitHash /\ [][HashPaths]_vars

----
\* Scorer (src/byre/scoring.py).  The floats of the program are integers in
\* thousandths here (a score of 1.0 is 1000, the protected score -1.0 is
\* -1000), divisions round down; days, peers and gigabytes are integers.
Milli == 1000
DaySeconds == 86400
GB == 1000000000
UpspeedThreshold == 5120

\* _sigmoid, in thousandths, of x in thousandths: 1 / (1 + exp(-x)) at the
\* integer below x, and 0 where math.exp overflows.
sigmoid(x) ==
    LET n == x \div Milli
        values == <<2, 7, 18, 47, 119, 269, 500, 731, 881, 953, 982, 993, 998>>
    IN  IF n < -709 THEN 0
        ELSE IF n < -6 THEN 1
        ELSE IF n > 6 THEN 999
        ELSE values[n + 7]

\* _piecewise_linear: points is a sequence of <<x, y>>, y in thousandths.
RECURSIVE Segment(_, _, _)
Segment(points, x, n) ==
    IF n >= Len(points) THEN points[Len(points)][2]
    ELSE LET x1 == points[n][1]
             y1 == points[n][2]
             x2 == points[n + 1][1]
             y2 == points[n + 1][2]
         IN  IF x1 <= x /\ x < x2
             THEN ((y2 - y1) * (x - x1)) \div (x2 - x1) + y1
             ELSE Segment(points, x, n + 1)

piecewise_linear(points, x) ==
    IF x < points[1][1] THEN points[1][2] ELSE Segment(points, x, 1)

file_size_weights == << <<0, 100>>, <<2, 1000>>, <<15, 1000>>, <<60, 100>>, <<500, 10>> >>

leecher_weights == << <<0, 100>>, <<2, 600>>, <<6, 900>>, <<10, 1000>> >>

\* TorrentPromotion: the promotions of a value, and its __contains__.
get_promotions(promotions) ==
    CASE promotions = "FREE" -> {"free"}
      [] promotions = "X2" -> {"two_up"}
      [] promotions = "FREE_X2" -> {"free", "two_up"}
      [] promotions = "HALF_OFF" -> {"half_down"}
      [] promotions = "HALF_OFF_X2" -> {"half_down", "two_up"}
      [] promotions = "THIRTY_PERCENT" -> {"thirty_down"}
      [] OTHER -> {}

Contains(promotions, item) == promotions = "ANY" \/ item \in get_promotions(promotions)

\* The discount of the first promotion of the dict discounts the torrent has.
Discount(promotions) ==
    IF Contains(promotions, "free") THEN 1000
    ELSE IF Contains(promotions, "half_down") THEN 500
    ELSE IF Contains(promotions, "thirty_down") THEN 700
    ELSE 0

\* The test on the leechers with < for <=.
NoLeechersStrict(torrent) == torrent.leechers < 0

\* score_downloading, the two early returns.
NoSeeders(torrent) == torrent.seeders <= 0

NoLeechers(torrent) == torrent.leechers <= 0

score_downloading(self, torrent, recovery) ==
    IF NoSeeders(torrent) THEN 0
    ELSE IF NoLeechers(torrent) THEN 0
    ELSE LET finished_ratio == sigmoid((30 - torrent.live_time) * Milli) \div 2 + 500
             value1 == ((finished_ratio * torrent.finished + torrent.leechers * 1500)
                            \div (torrent.live_time + 2) + torrent.leechers * Milli)
                        \div (torrent.seeders + torrent.leechers + 1)
             value2 == (value1 * piecewise_linear(leecher_weights, torrent.leechers)) \div Milli
             value3 == IF Contains(torrent.promotions, "two_up") THEN value2 * 2 ELSE value2
             value4 == (value3 * (Milli + (self.free_weight * Discount(torrent.promotions)) \div Milli)) \div Milli
             size_ratio == sigmoid((finished_ratio + torrent.finished * Milli) \div (torrent.live_time + 1)
                                       - 20 * Milli)
             value == (value4 * (((Milli - size_ratio) * piecewise_linear(file_size_weights, torrent.file_size))
                                     \div Milli + size_ratio)) \div Milli
         IN  IF recovery /\ value < Milli \div self.cost_recovery_days THEN 0 ELSE value

\* LocalTorrent.estimate_info: the statistics from the site when known, else
\* estimated from the client's record (None is the empty sequence).
estimate_info(torrent, now) ==
    IF torrent.info # <<>> THEN torrent.info
    ELSE [ promotions |-> "NONE",
           file_size |-> torrent.size \div GB,
           live_time |-> (now - torrent.last_activity) \div DaySeconds,
           seeders |-> torrent.num_complete,
           leechers |-> torrent.num_incomplete,
           finished |-> 0 ]

\* The test on the seeders with < for <=.
FewSeedersStrict(info) == info.seeders < 1

\* score_uploading, its four tests.
Uploading(torrent) == torrent.upspeed > UpspeedThreshold

Incomplete(torrent) == torrent.amount_left > 0

Exempt(self, torrent, now) ==
    torrent.completion_on + self.removal_exemption_days * DaySeconds > now

FewSeeders(info) == info.seeders <= 1

score_uploading(self, torrent, now) ==
    IF Uploading(torrent) THEN -Milli
    ELSE IF Incomplete(torrent) THEN -Milli
    ELSE IF Exempt(self, torrent, now) THEN -Milli
    ELSE LET info == estimate_info(torrent, now)
         IN  IF FewSeeders(info) THEN -Milli
             ELSE score_downloading(self, info, FALSE)

\* The scorer MainCommand.configure builds by default.
DefaultScorer == [free_weight |-> 1000, cost_recovery_days |-> 7, removal_exemption_days |-> 15]

\* time.time() of the model: day 20.
Now == 20 * DaySeconds

\* TorrentInfo values as the site lists them.
TorrentInfos ==
    [ promotions : {"ANY", "NONE", "FREE", "HALF_OFF_X2", "THIRTY_PERCENT"},
      file_size : {1, 100},
      live_time : {0, 40},
      seeders : {-1, 0, 1, 2, 5},
      leechers : {-1, 0, 1, 3, 12},
      finished : {0, 100} ]

\* LocalTorrent values: the client's record, and the statistics of the site
\* or None.
LocalTorrents ==
    [ upspeed : {0, UpspeedThreshold, UpspeedThreshold + 1},
      amount_left : {0, 1},
      completion_on : {Now - 15 * DaySeconds - 1, Now - 15 * DaySeconds, Now - 15 * DaySeconds + 1},
      size : {GB, 2 * GB},
      last_activity : {Now - DaySeconds},
      num_complete : {1, 2, 9},
      num_incomplete : {-1, 3},
      info : {<<>>} \cup {i \in TorrentInfos :
                              /\ i.promotions = "FREE" /\ i.file_size = 1 /\ i.live_time = 40
                              /\ i.seeders \in {1, 2} /\ i.leechers \in {0, 3} /\ i.finished = 100} ]

ScoreDownloading ==
    /\ pc = "score_downloading"
    /\ scored' = [scored EXCEPT !.returned = score_downloading(scored.self, scored.torrent, scored.recovery)]
    /\ pc' = "scored_downloading"
    /\ UNCHANGED <<plannerVars, table, saved, hashed, client>>

ScoreUploading ==
    /\ pc = "score_uploading"
    /\ scored' = [scored EXCEPT !.returned = score_uploading(scored.self, scored.torrent, scored.now)]
    /\ pc' = "scored_uploading"
    /\ UNCHANGED <<plannerVars, table, saved, hashed, client>>

InitScorer ==
    /\ PlannerIdle
    /\ client = ClientIdle
    /\ table = {}
    /\ saved = <<>>
    /\ hashed = <<>>
    /\ \/ /\ pc = "score_downloading"
          /\ scored \in [self : {DefaultScorer}, torrent : TorrentInfos, recovery : BOOLEAN,
                         now : {Now}, returned : {0}]
       \/ /\ pc = "score_uploading"
          /\ scored \in [self : {DefaultScorer}, torrent : LocalTorrents, recovery : {FALSE},
                         now : {Now}, returned : {0}]

SpecScorer == InitScorer /\ [][ScoreDownloading \/ ScoreUploading]_vars

----
\* Planner.merge_torrent_info with the store behind it: the rows of the held
\* torrents are looked up by hash and written when missing, and the grouping
\* uses the path_hash of the TorrentDO the store hands back.  A held torrent
\* has its hash (its index in the list), site and seed_id besides the fields
\* of the planner; fp is the hash of its own file list.

\* TorrentStore.hash_local_path: the hash of the file list of the torrent.
hash_local_path(torrent) == torrent.fp

\* The TorrentDO that save_local_torrent builds.
LocalDO(torrent) ==
    [hash |-> torrent.hash, name |-> "name", path_hash |-> hash_local_path(torrent),
     site |-> torrent.site, seed_id |-> torrent.seed_id]

\* TorrentStore.save_local_torrent: the table after the call, the TorrentDO
\* returned, and what save_torrent had returned to it.
save_local_torrent(rows, torrent) ==
    LET info == LocalDO(torrent)
        r == save_torrent(rows, info)
    IN  [rows |-> r.rows, info |-> info, returned |-> r.returned]

\* The orders in which a set can be iterated.
Orders(S) == {o \in [1..Cardinality(S) -> S] : \A x, y \in DOMAIN o : o[x] = o[y] => x = y}

\* The loop over missing of save_extra_torrents, in the order given:
\* torrents is the list being filled, log the writes done.
RECURSIVE SaveMissing(_, _, _, _, _)
SaveMissing(rows, loc, order, torrents, log) ==
    IF order = <<>> THEN [rows |-> rows, torrents |-> torrents, log |-> log]
    ELSE LET h == Head(order)
             r == save_local_torrent(rows, loc[h])
         IN  SaveMissing(r.rows, loc, Tail(order), [torrents EXCEPT ![h] = r.info],
                         Append(log, [torrent |-> r.info, returned |-> r.returned,
                                      before |-> rows, after |-> r.rows]))

\* The hashes of loc that have no row.
Missing(rows, loc) == {h \in 1..Len(loc) : ~\E r \in rows : r.hash = loc[h].hash}

\* TorrentStore.save_extra_torrents (one chunk): the rows found by hash are
\* used as they are, the others are written by save_local_torrent.
save_extra_torrents(rows, loc, order) ==
    LET existing == [h \in 1..Len(loc) |->
                        IF h \in Missing(rows, loc)
                        THEN LocalDO(loc[h])
                        ELSE CHOOSE r \in rows : r.hash = loc[h].hash]
    IN  SaveMissing(rows, loc, order, existing, <<>>)

\* Planner.merge_torrent_info: save_extra_torrents, then the grouping by the
\* path_hash of the returned TorrentDOs.
MergeTorrentInfo ==
    /\ pc = "extra"
    /\ \E order \in Orders(Missing(table, scored_local)) :
          LET r == save_extra_torrents(table, scored_local, order)
              merged == merge_torrent_info(NP, [h \in 1..Len(scored_local) |->
                                                   [scored_local[h] EXCEPT !.fp = r.torrents[h].path_hash]])
          IN  /\ table' = r.rows
              /\ saved' = r.log
              /\ used_spaces' = merged.total
              /\ local' = merged.local
              /\ duplicates' = merged.duplicates
    /\ pc' = "merged"
    /\ UNCHANGED <<configured, configs, scored_local, remote, exists, planners, k, removable, downloadable,
                   run, first, hashed, scored, client>>

\* The held torrents of one directory: torrents of two sites, named after
\* their seed (seed_id 1, 2) or not (seed_id 0).
ExtraKinds ==
    {[part |-> 1, fp |-> f, size |-> HeldSizes[f], score |-> 1, site |-> w, seed_id |-> n, hash |-> h] :
        f \in 1..Len(HeldSizes), w \in {"byr", "tju"}, n \in 0..2, h \in 1..MaxHeld}

\* The rows a table can hold before the call: rows of held torrents written
\* by an earlier run, and the row of a torrent that is no longer held.
ExtraRows(sl) ==
    {LocalDO(sl[h]) : h \in 1..Len(sl)}
    \cup {[hash |-> 0, name |-> "name", path_hash |-> 1, site |-> "byr", seed_id |-> 3]}

\* The primary key and the two unique indexes hold of the table.
TableValid(rows) ==
    \A r \in rows : ~DatabaseError(rows \ {r}, r)

InitExtra ==
    /\ configs \in [1..1 -> ConfigKinds]
    /\ configured = configs
    /\ scored_local \in {sl \in SeqsUpTo(ExtraKinds, MaxHeld) : \A h \in 1..Len(sl) : sl[h].hash = h}
    /\ table \in {rows \in SUBSET ExtraRows(scored_local) : TableValid(rows)}
    /\ remote = <<>>
    /\ exists = FALSE
    /\ used_spaces = <<>>
    /\ local = <<>>
    /\ duplicates = <<>>
    /\ planners = <<>>
    /\ k = 1
    /\ removable = <<>>
    /\ downloadable = <<>>
    /\ run = 1
    /\ first = <<>>
    /\ pc = "extra"
    /\ saved = <<>>
    /\ hashed = <<>>
    /\ scored = <<>>
    /\ client = ClientIdle

SpecExtra == InitExtra /\ [][MergeTorrentInfo]_vars

----
\* NexusClient.get and the login it triggers (src/byre/clients/client.py),
\* with ByrClient._authorize_session (src/byre/clients/byr.py).  client.stack
\* is the call stack (get_soup is folded into its caller), client.signal the
\* value returned or the exception raised to the top frame ("none" while the
\* top frame runs), client.requests the requests sent by the outermost get.

\* The depth at which the interpreter raises RecursionError.
MaxDepth == 12

\* What the site answers: 200, or a redirect.
Statuses == {200, 302}

Retries == 1..3

Frame(f, path, retries) == [f |-> f, path |-> path, retries |-> retries, i |-> 0]

Top == client.stack[Len(client.stack)]

Pop(stack) == SubSeq(stack, 1, Len(stack) - 1)

Running(f) == client.stack # <<>> /\ Top.f = f

\* The top frame calls frames[1], which calls frames[2], and so on.
Call(stack, frames) ==
    IF Len(stack) + Len(frames) > MaxDepth
    THEN [stack |-> stack, signal |-> "RecursionError"]
    ELSE [stack |-> stack \o frames, signal |-> "none"]

\* get, lines 112-120: the next turn of the loop, or the raise after it.
Retry(stack) ==
    LET frame == stack[Len(stack)]
    IN  IF frame.i # frame.retries - 1
        THEN [stack |-> [stack EXCEPT ![Len(stack)].i = frame.i + 1], signal |-> "none"]
        ELSE [stack |-> Pop(stack), signal |-> "ConnectionError"]

\* get, lines 103-110: one request; 200 returns the response, the first
\* failure of a get with retries > 1 calls is_logged_in, which calls
\* get("", retries=1).
GetRequest ==
    /\ pc = "get"
    /\ Running("get")
    /\ client.signal = "none"
    /\ \E status \in Statuses :
          LET r == IF status = 200 THEN [stack |-> Pop(client.stack), signal |-> "Response"]
                   ELSE IF Top.retries > 1 /\ Top.i = 0
                        THEN Call(client.stack, <<Frame("is_logged_in", "", 0), Frame("get", "", 1)>>)
                        ELSE Retry(client.stack)
          IN  client' = [client EXCEPT !.stack = r.stack, !.signal = r.signal,
                                       !.requests = @ + (IF Len(client.stack) = 1 THEN 1 ELSE 0)]
    /\ UNCHANGED <<plannerVars, pc, table, saved, hashed, scored>>

\* is_logged_in: True when its get returned, False when it raised
\* ConnectionError.
IsLoggedIn ==
    /\ pc = "get"
    /\ Running("is_logged_in")
    /\ client.signal \in {"Response", "ConnectionError"}
    /\ client' = [client EXCEPT !.stack = Pop(client.stack),
                                !.signal = IF client.signal = "Response" THEN "True" ELSE "False"]
    /\ UNCHANGED <<plannerVars, pc, table, saved, hashed, scored>>

\* get, lines 110-112, after is_logged_in: when not logged in,
\* login(cache=False) calls _authorize_session, which calls
\* get_soup("login.php"), that is get("login.php", retries=3).
GetLoggedIn ==
    /\ pc = "get"
    /\ Running("get")
    /\ client.signal \in {"True", "False"}
    /\ LET r == IF client.signal = "True" THEN Retry(client.stack)
                ELSE Call(client.stack, <<Frame("login", "", 0), Frame("_authorize_session", "", 0),
                                          Frame("get", "login.php", 3)>>)
       IN  client' = [client EXCEPT !.stack = r.stack, !.signal = r.signal]
    /\ UNCHANGED <<plannerVars, pc, table, saved, hashed, scored>>

\* ByrClient._authorize_session after the login page: the captcha, then the
\* login request; it returns on a 302 and raises ConnectionError otherwise.
AuthorizeSession ==
    /\ pc = "get"
    /\ Running("_authorize_session")
    /\ client.signal = "Response"
    /\ \E status \in Statuses :
          client' = [client EXCEPT !.stack = Pop(client.stack),
                                   !.signal = IF status = 302 THEN "None" ELSE "ConnectionError"]
    /\ UNCHANGED <<plannerVars, pc, table, saved, hashed, scored>>

\* login, lines 95-97, after _authorize_session returned.
Login ==
    /\ pc = "get"
    /\ Running("login")
    /\ client.signal = "None"
    /\ client' = [client EXCEPT !.stack = Pop(client.stack)]
    /\ UNCHANGED <<plannerVars, pc, table, saved, hashed, scored>>

\* get, lines 111-120, after login returned.
GetLoginReturned ==
    /\ pc = "get"
    /\ Running("get")
    /\ client.signal = "None"
    /\ LET r == Retry(client.stack)
       IN  client' = [client EXCEPT !.stack = r.stack, !.signal = r.signal]
    /\ UNCHANGED <<plannerVars, pc, table, saved, hashed, scored>>

\* An exception leaves a frame that does not catch it: only is_logged_in has
\* an except clause, for ConnectionError.
Raise ==
    /\ pc = "get"
    /\ client.stack # <<>>
    /\ \/ client.signal = "RecursionError"
       \/ client.signal = "ConnectionError" /\ Top.f # "is_logged_in"
    /\ client' = [client EXCEPT !.stack = Pop(client.stack)]
    /\ UNCHANGED <<plannerVars, pc, table, saved, hashed, scored>>

\* get(path, retries=n) called for a page of the site.
InitGet ==
    /\ PlannerIdle
    /\ pc = "get"
    /\ table = {}
    /\ saved = <<>>
    /\ hashed = <<>>
    /\ scored = <<>>
    /\ \E n \in Retries, path \in {"torrents.php", "userdetails.php"} :
          client = [stack |-> <<Frame("get", path, n)>>, signal |-> "none", requests |-> 0, retries |-> n]

SpecGet ==
    InitGet /\ [][GetRequest \/ IsLoggedIn \/ GetLoggedIn \/ AuthorizeSession \/ Login \/ GetLoginReturned
                  \/ Raise]_vars

----
\* Notions of the specification the claims are stated with.

\* The content-equivalence class of held torrent h: the held torrents of its
\* directory with its fingerprint.
ClassOf(h) ==
    {u \in 1..Len(scored_local) :
        /\ scored_local[u].part = scored_local[h].part
        /\ scored_local[u].fp = scored_local[h].fp}

Protected(h) == scored_local[h].score = -1

\* The fingerprints present in directory p, and the bytes of one of them.
FingerprintsIn(p) == {scored_local[h].fp : h \in {u \in 1..Len(scored_local) : scored_local[u].part = p}}

BytesOf(p, f) ==
    LET h == CHOOSE u \in 1..Len(scored_local) : scored_local[u].part = p /\ scored_local[u].fp = f
    IN  scored_local[h].size

RECURSIVE SumBytes(_, _)
SumBytes(p, F) ==
    IF F = {} THEN 0
    ELSE LET f == CHOOSE g \in F : TRUE IN BytesOf(p, f) + SumBytes(p, F \ {f})

\* Free headroom of directory p before the first candidate, and the bytes of
\* its classes without a protected member.
Headroom(p) == configs[p].max_total_size - used_spaces[p]

ReclaimableBytes(p) ==
    SumBytes(p, {f \in FingerprintsIn(p) :
                    \A h \in 1..Len(scored_local) :
                        scored_local[h].part = p /\ scored_local[h].fp = f => ~Protected(h)})

Feasible(p, file_size) == Headroom(p) + ReclaimableBytes(p) >= file_size

Planned == pc \in {"loop", "returned"}

Evicted == {removable[x].torrent : x \in 1..Len(removable)}

Acquired == {downloadable[x].candidate : x \in 1..Len(downloadable)}

TargetMode ==
    /\ Len(remote) = 1
    /\ remote[1].score = Inf
    /\ \A p \in 1..NP : configs[p].max_download_size = TargetDownloadSize

----
\* C1: for every directory whose used space is within its effective capacity
\* before the run, the space Planner.estimate expects after the returned plan
\* (used before, minus the sizes of the plan's removals there, plus the sizes
\* of the candidates the plan downloads there) is at most max_total_size
\* after clamp.
C1_CapacityInvariant ==
    pc = "returned" =>
        \A p \in 1..NP :
            used_spaces[p] <= configs[p].max_total_size =>
                estimate(p).after <= configs[p].max_total_size

----
\* C2: the eviction list never holds a torrent whose retain score is -1, nor
\* a torrent whose content-equivalence class has a member of retain score -1.
C2_ProtectionInvariant ==
    \A h \in Evicted : \A u \in ClassOf(h) : ~Protected(u)

\* A plan was returned that evicts a torrent while another removable-scored
\* torrent is spared because a member of its class is protected.
C2_Witness ==
    /\ pc = "returned"
    /\ Evicted # {}
    /\ \E h \in 1..Len(scored_local) :
          /\ scored_local[h].site = "byr"
          /\ scored_local[h].score >= 0
          /\ scored_local[h].score < remote[1].score
          /\ \E u \in ClassOf(h) : Protected(u)

\* C3: every torrent of the eviction list has a retain score strictly below
\* the acquire score of the candidate it was removed for.
C3_GreedyExchange ==
    \A x \in 1..Len(removable) :
        scored_local[removable[x].torrent].score < remote[removable[x].candidate].score

\* A returned plan evicts for its second candidate, whose score is lower
\* than the first one's.
C3_Witness ==
    /\ pc = "returned"
    /\ \E x \in 1..Len(removable) :
          /\ removable[x].candidate = 2
          /\ remote[2].score < remote[1].score

\* C4: the used bytes merge_torrent_info computes for a directory are the sum,
\* over the distinct fingerprints present in that directory, of one member's
\* size.
C4_DedupInvariant ==
    Planned => \A p \in 1..NP : used_spaces[p] = SumBytes(p, FingerprintsIn(p))

\* C5, for the case the claim names: in target mode, when the free headroom
\* of some directory alone exceeds the target's size, the returned plan
\* acquires the target.
C5_TargetAcquired ==
    (pc = "returned" /\ TargetMode /\ \E p \in 1..NP : Headroom(p) > remote[1].file_size)
        => 1 \in Acquired

\* C6: the repeated call of plan on the unchanged snapshot returns the lists
\* the first call returned.
C6_Idempotence ==
    (pc = "returned" /\ run = 2) => <<removable, downloadable>> = first

\* The repeated call has returned a plan that evicts and acquires, for a
\* directory whose configured limit clamp has lowered.
C6_Witness ==
    /\ pc = "returned"
    /\ run = 2
    /\ removable # <<>>
    /\ downloadable # <<>>
    /\ \E p \in 1..NP : configured[p].max_total_size # configs[p].max_total_size

\* C7: after clamp(used) with free disk space f, max_total_size is used + f
\* when the configured limit is 0 and min(limit, used + f) when it is
\* positive, and never above used + f; limit 0, used 10, free 50 give 60.
C7_Clamp ==
    pc = "clamped" =>
        \A p \in 1..NP :
            LET limit == configured[p].max_total_size
                avail == used_spaces[p] + configs[p].free
            IN  /\ limit = 0 => configs[p].max_total_size = avail
                /\ limit > 0 => configs[p].max_total_size = Min(limit, avail)
                /\ configs[p].max_total_size <= avail
                /\ (limit = 0 /\ used_spaces[p] = 10 /\ configs[p].free = 50)
                       => configs[p].max_total_size = 60

\* clamp has run with limit 0, used 10 and free 50.
C7_Witness ==
    /\ pc = "clamped"
    /\ configured[1].max_total_size = 0
    /\ used_spaces[1] = 10
    /\ configs[1].free = 50
    /\ configs[1].max_total_size = 60

\* C8: a candidate of acquire score 0 is never in the acquisition list.
C8_ZeroScoreOmitted ==
    \A c \in Acquired : remote[c].score # 0

\* A plan was returned for a list with a candidate of score 0 whose files
\* exist, and it acquires another candidate of the list.
C8_Witness ==
    /\ pc = "returned"
    /\ \E c \in 1..Len(remote) : remote[c].score = 0
    /\ exists
    /\ Acquired # {}

\* C9: without exists, a candidate whose size exceeds, in every directory,
\* the free headroom plus the reclaimable bytes is not in the acquisition
\* list.
C9_UnplaceableOmitted ==
    (Planned /\ ~exists) =>
        \A c \in Acquired : \E p \in 1..NP : Feasible(p, remote[c].file_size)

\* The inputs of Scenario A.
ScenarioA ==
    /\ Len(configured) = 1
    /\ configured[1].max_total_size = 100
    /\ Len(scored_local) = 4
    /\ scored_local[1].size = 20
    /\ remote = <<[file_size |-> 25, score |-> 8]>>

\* C10: on Scenario A, plan returns the eviction list (H1) and the
\* acquisition list (C); the effective limit is 100 and 90 are used.
C10_ScenarioA ==
    (ScenarioA /\ pc = "returned") =>
        /\ configs[1].max_total_size = 100
        /\ used_spaces[1] = 90
        /\ [x \in 1..Len(removable) |-> removable[x].torrent] = <<1>>
        /\ [x \in 1..Len(downloadable) |-> downloadable[x].candidate] = <<1>>

\* Scenario A has been planned: H1 is evicted, H2 and H3 are not.
C10_Witness ==
    /\ ScenarioA
    /\ pc = "returned"
    /\ Evicted = {1}
    /\ Acquired = {1}

----
\* One row per key in the table.
UniqueHash == \A r1, r2 \in table : r1.hash = r2.hash => r1 = r2

UniquePathHashSite ==
    \A r1, r2 \in table : (r1.path_hash = r2.path_hash /\ r1.site = r2.site) => r1 = r2

UniqueSiteSeedId ==
    \A r1, r2 \in table : (r1.site = r2.site /\ r1.seed_id = r2.seed_id) => r1 = r2

\* C11 as stated: the table holds at most one row per hash and at most one
\* row per (path_hash, site); a save_torrent call whose row would break one of
\* these two returns False and leaves the table as it was, and every other
\* call returns True and adds exactly its row.
C11_TwoConstraints ==
    /\ UniqueHash
    /\ UniquePathHashSite
    /\ \A x \in 1..Len(saved) :
          LET c == saved[x]
          IN  IF \/ \E r \in c.before : r.hash = c.torrent.hash
                 \/ \E r \in c.before : r.path_hash = c.torrent.path_hash /\ r.site = c.torrent.site
              THEN c.returned = FALSE /\ c.after = c.before
              ELSE c.returned = TRUE /\ c.after = c.before \cup {c.torrent}

\* C11 amended: the table holds at most one row per hash, per (path_hash,
\* site) and per (site, seed_id); a save_torrent call whose row would break
\* one of the three returns False and leaves the table as it was, and every
\* other call returns True and adds exactly its row.
C11_ThreeConstraints ==
    /\ UniqueHash
    /\ UniquePathHashSite
    /\ UniqueSiteSeedId
    /\ \A x \in 1..Len(saved) :
          LET c == saved[x]
          IN  IF \/ \E r \in c.before : r.hash = c.torrent.hash
                 \/ \E r \in c.before : r.path_hash = c.torrent.path_hash /\ r.site = c.torrent.site
                 \/ \E r \in c.before : r.site = c.torrent.site /\ r.seed_id = c.torrent.seed_id
              THEN c.returned = FALSE /\ c.after = c.before
              ELSE c.returned = TRUE /\ c.after = c.before \cup {c.torrent}

\* The calls of test_duplicate_torrents were made (a row saved, the same row
\* refused, a row of another site with the same seed_id saved), or a row was
\* refused for its (path_hash, site) alone.
C11_Witness ==
    /\ Cardinality(table) = 2
    /\ \E x \in 1..Len(saved) :
          /\ ~saved[x].returned
          /\ \/ saved[x].torrent \in saved[x].before
             \/ /\ \A r \in saved[x].before : r.hash # saved[x].torrent.hash
                /\ \A r \in saved[x].before : ~(r.site = saved[x].torrent.site /\ r.seed_id = saved[x].torrent.seed_id)

----
\* The number of keys of the dict m that give the pair (path without
\* backslashes, size).
PairCount(m, path, size) ==
    Cardinality({q \in DOMAIN m : no_backslash(q) = path /\ m[q] = size})

SamePairs(m1, m2) ==
    \A q \in DOMAIN m1 \cup DOMAIN m2 : \A size \in FileSizes :
        PairCount(m1, no_backslash(q), size) = PairCount(m2, no_backslash(q), size)

\* C12: hash_paths gives two dicts of paths the same digest exactly when both
\* give the same collection of (path with "/" for every "\", size) pairs.
C12_HashPaths ==
    pc = "hashed" => ((hashed.h1 = hashed.h2) <=> SamePairs(hashed.m1, hashed.m2))

----
\* C13: score_uploading returns -1 exactly when the upload rate is above the
\* threshold, or bytes are left, or the torrent completed within the
\* exemption window, or its statistics show at most 1 seeder; otherwise it
\* returns the score_downloading of the statistics without the recovery
\* cutoff, which is not negative.
C13_ScoreUploading ==
    pc = "scored_uploading" =>
        LET torrent == scored.torrent
            info == estimate_info(torrent, scored.now)
            protected ==
                \/ torrent.upspeed > UpspeedThreshold
                \/ torrent.amount_left > 0
                \/ scored.now - torrent.completion_on < scored.self.removal_exemption_days * DaySeconds
                \/ info.seeders <= 1
        IN  /\ scored.returned = -Milli <=> protected
            /\ ~protected =>
                  /\ scored.returned = score_downloading(scored.self, info, FALSE)
                  /\ scored.returned >= 0

\* A torrent at the upload threshold, complete and just past the window was
\* scored from statistics with several seeders, below the recovery cutoff.
C13_Witness ==
    /\ pc = "scored_uploading"
    /\ scored.torrent.upspeed = UpspeedThreshold
    /\ scored.torrent.completion_on = scored.now - 15 * DaySeconds
    /\ estimate_info(scored.torrent, scored.now).seeders > 1
    /\ scored.returned > 0
    /\ scored.returned < Milli \div scored.self.cost_recovery_days

\* C14: score_downloading returns 0 for every torrent with seeders <= 0 or
\* leechers <= 0, with or without the recovery cutoff.
C14_NoPeersNoScore ==
    (pc = "scored_downloading" /\ (scored.torrent.seeders <= 0 \/ scored.torrent.leechers <= 0))
        => scored.returned = 0

\* A promoted torrent with seeders, many finished downloads and no leecher
\* was scored without the cutoff.
C14_Witness ==
    /\ pc = "scored_downloading"
    /\ ~scored.recovery
    /\ scored.torrent.seeders > 0
    /\ scored.torrent.leechers = 0
    /\ scored.torrent.finished > 0
    /\ scored.torrent.promotions = "FREE"
    /\ scored.returned = 0

----
\* The loop of plan is about to call the downloaders for candidate k.
Trying == pc = "loop" /\ k <= Len(remote)

\* The directory plan gives candidate k to (0: none), from the results of
\* the downloaders.
Host(tried) ==
    LET hosts == {p \in 1..NP : tried[p].plan # <<>>}
    IN  IF hosts = {} THEN 0 ELSE Chosen([p \in hosts |-> tried[p].plan[1]])

\* No two directories hold torrents with the same files.
SeparateFiles ==
    \A h, u \in 1..Len(scored_local) :
        scored_local[h].fp = scored_local[u].fp => scored_local[h].part = scored_local[u].part

\* C15, for headroom above the candidate's size: when candidate k passes the
\* max_download_size and score checks of a directory whose remaining headroom
\* exceeds the candidate's size, the directory's downloader accepts it with
\* an empty removal list and its headroom decreases by the candidate's size
\* (plan called without exists, no files shared between directories).
C15_DirectPlacement ==
    (Trying /\ ~exists /\ SeparateFiles) =>
        \A p \in 1..NP :
            ( /\ ~OverDownloadSize(planners[p].downloaded, remote[k].file_size, configs[p].max_download_size)
              /\ remote[k].score # 0
              /\ planners[p].remaining > remote[k].file_size )
            => LET t == Tried[p]
               IN  /\ t.plan # <<>>
                   /\ t.plan[1][2] = <<>>
                   /\ t.st.remaining = planners[p].remaining - remote[k].file_size

\* The position in the directory's byr list of torrent h.
PositionIn(byr_local, h) == CHOOSE x \in 1..Len(byr_local) : byr_local[x] = h

\* C16: a directory's cursor i never decreases from one candidate to the
\* next, and after a commit with removals it is the position, in the
\* directory's sorted list, just past the last torrent removed.
C16_CursorMonotone ==
    Trying =>
        \A p \in 1..NP :
            LET t == Tried[p]
            IN  /\ t.st.i >= planners[p].i
                /\ (t.plan # <<>> /\ t.plan[1][2] # <<>>) =>
                      LET rm == t.plan[1][2]
                      IN  t.st.i = PositionIn(ByrLocal(scored_local, local[p]), rm[Len(rm)][1])

\* C17: no held torrent appears twice in the eviction list.
C17_NoDoubleEviction ==
    \A x, y \in 1..Len(removable) :
        removable[x].torrent = removable[y].torrent => x = y

\* The bytes the downloader of directory p has counted as removable so far
\* (plan called without exists): what its remaining gained beyond the sizes
\* it accepted.
ReclaimedBytes(p) == planners[p].remaining + planners[p].downloaded - Headroom(p)

\* C18: over a run, the bytes a directory's downloader counts as reclaimed
\* are at most the bytes of the directory's reclaimable classes, each class
\* counted once.
C18_ClassBytesOnce ==
    (pc = "loop" /\ ~exists) =>
        \A p \in 1..NP : ReclaimedBytes(p) <= ReclaimableBytes(p)

\* C19: the call for candidate k changes the planning state (cursor,
\* remaining headroom, bytes accepted) of no directory but the one plan gives
\* the candidate to (no files shared between directories).
C19_Frame ==
    (Trying /\ SeparateFiles) =>
        LET tried == Tried
        IN  \A p \in 1..NP :
                p # Host(tried) =>
                    /\ tried[p].st = planners[p]
                    /\ tried[p].self_remaining = configs[p].remaining

\* The sizes of the first n candidates of the acquisition list.
RECURSIVE AcquiredBytes(_)
AcquiredBytes(n) ==
    IF n = 0 THEN 0 ELSE remote[downloadable[n].candidate].file_size + AcquiredBytes(n - 1)

\* C20: every candidate of the acquisition list was placed in a directory
\* whose max_download_size is at least the sizes acquired before it in the
\* run, in all directories, plus its own (plan called without exists, no
\* files shared between directories).
C20_RunCap ==
    (~exists /\ SeparateFiles) =>
        \A x \in 1..Len(downloadable) :
            AcquiredBytes(x) <= configs[downloadable[x].directory].max_download_size

----
\* The retain scores of the held torrents of S.
RECURSIVE SumScores(_)
SumScores(S) ==
    IF S = {} THEN 0
    ELSE LET h == CHOOSE u \in S : TRUE IN scored_local[h].score + SumScores(S \ {h})

\* The torrents evicted for candidate c, and they with their class-mates.
EvictedFor(c) == {removable[x].torrent : x \in {y \in 1..Len(removable) : removable[y].candidate = c}}

SacrificedFor(c) == UNION {ClassOf(h) : h \in EvictedFor(c)}

\* C21: for every candidate placed by evicting, the sum of the retain scores
\* of the torrents evicted for it and of their class-mates is strictly below
\* the candidate's acquire score.
C21_SacrificedValue ==
    \A c \in Acquired : EvictedFor(c) # {} => SumScores(SacrificedFor(c)) < remote[c].score

----
\* The bytes the removal list rm frees: one size per set of shared files.
FreedBytes(rm) ==
    LET hs == {rm[x][1] : x \in 1..Len(rm)}
        reps == {h \in hs : \A u \in hs : scored_local[u].fp = scored_local[h].fp => h <= u}
        RECURSIVE sizes(_)
        sizes(S) == IF S = {} THEN 0
                    ELSE LET h == CHOOSE u \in S : TRUE IN scored_local[h].size + sizes(S \ {h})
    IN  sizes(reps)

\* The retain scores of the torrents of the removal list rm.
RetainSum(rm) == SumScores({rm[x][1] : x \in 1..Len(rm)})

\* C22: of the directories whose downloader accepts candidate k, plan picks
\* one whose removal list frees the fewest bytes and, among those, one whose
\* removal list has the smallest summed retain score (no files shared
\* between directories).
C22_SmallestFootprint ==
    (Trying /\ SeparateFiles) =>
        LET tried == Tried
            hosts == {p \in 1..NP : tried[p].plan # <<>>}
            chosen == Host(tried)
            rm(p) == tried[p].plan[1][2]
        IN  \A p \in hosts :
                /\ FreedBytes(rm(chosen)) <= FreedBytes(rm(p))
                /\ FreedBytes(rm(chosen)) = FreedBytes(rm(p)) => RetainSum(rm(chosen)) <= RetainSum(rm(p))

\* The sizes of the torrents of the removal list rm, as the scan adds them.
RECURSIVE ScannedBytes(_)
ScannedBytes(rm) ==
    IF rm = <<>> THEN 0 ELSE scored_local[Head(rm)[1]].size + ScannedBytes(Tail(rm))

\* The torrents of the removal list rm share no files.
NoSharedFiles(rm) ==
    \A x, y \in 1..Len(rm) : scored_local[rm[x][1]].fp = scored_local[rm[y][1]].fp => x = y

\* C23: a directory's removal list for candidate k is not longer than needed:
\* without its last torrent, the bytes removed plus the directory's headroom
\* are below the candidate's size (equality already commits); stated for
\* removal lists whose torrents share no files.
C23_FirstFit ==
    Trying =>
        \A p \in 1..NP :
            LET t == Tried[p]
            IN  (t.plan # <<>> /\ t.plan[1][2] # <<>> /\ NoSharedFiles(t.plan[1][2])) =>
                    LET rm == t.plan[1][2]
                    IN  ScannedBytes(SubSeq(rm, 1, Len(rm) - 1)) + planners[p].remaining
                            < remote[k].file_size

----
\* C24 as stated: whenever a held torrent is in the eviction list, every
\* other member of its content-equivalence class is in the list too.
C24_ClosedEvictionList ==
    pc = "returned" => \A h \in Evicted : ClassOf(h) \subseteq Evicted

\* C24 amended: whenever a held torrent is in the eviction list, every other
\* member of its content-equivalence class is in the list or in the entry of
\* the returned duplicates for that torrent.
C24_ClosedWithDuplicates ==
    pc = "returned" => \A h \in Evicted : ClassOf(h) \subseteq (Evicted \cup duplicates[h])

\* A plan was returned that evicts one member of a class of two and not the
\* other, which the duplicates name.
C24_Witness ==
    /\ pc = "returned"
    /\ \E h \in Evicted : \E u \in ClassOf(h) : u \notin Evicted /\ u \in duplicates[h]

----
\* C25: two held torrents with equal fingerprints in different directories
\* are not duplicates of each other, and each directory's used bytes count
\* the fingerprints present in it.
C25_ClassesPerDirectory ==
    Planned =>
        \A h, u \in 1..Len(scored_local) :
            (scored_local[h].fp = scored_local[u].fp /\ scored_local[h].part # scored_local[u].part) =>
                /\ u \notin duplicates[h]
                /\ \A p \in {scored_local[h].part, scored_local[u].part} :
                       used_spaces[p] = SumBytes(p, FingerprintsIn(p))

\* C26: plan does not raise, also when a directory holds no torrent.
C26_NoRaise == pc # "raised"

----
\* C27, for size zero: a candidate of size 0 is never in the acquisition
\* list, no torrent is evicted for it, and the call for it raises no
\* directory's headroom.
C27_NoZeroSize ==
    /\ \A c \in Acquired : remote[c].file_size > 0
    /\ \A x \in 1..Len(removable) : remote[removable[x].candidate].file_size > 0
    /\ (Trying /\ remote[k].file_size <= 0) =>
           \A p \in 1..NP : Tried[p].st.remaining <= planners[p].remaining

----
\* C28: a failing free-space query does not abort plan: the failing
\* directory is planned within its configured limit and the others as usual.
C28_DiskQueryFailure == pc # "disk_raised"

----
\* C29: a held torrent whose row could not be written is grouped with no
\* other torrent: it has no class-mates in duplicates, it is nobody's
\* class-mate, and the used bytes of the directory count its size on its own
\* (next to one size per path_hash of the other torrents).
FailedWrites == {saved[x].torrent.hash : x \in {y \in 1..Len(saved) : ~saved[y].returned}}

StoredFingerprints == {scored_local[h].fp : h \in (1..Len(scored_local)) \ FailedWrites}

C29_FailedWriteSingleton ==
    pc = "merged" =>
        /\ \A h \in FailedWrites :
              /\ duplicates[h] = {}
              /\ \A u \in 1..Len(scored_local) : h \notin duplicates[u]
        /\ FailedWrites # {} =>
              used_spaces[1] = SumSeq([h \in 1..Len(scored_local) |->
                                          IF h \in FailedWrites THEN scored_local[h].size ELSE 0])
                               + SumSeq([f \in 1..Len(HeldSizes) |->
                                            IF f \in StoredFingerprints THEN HeldSizes[f] ELSE 0])

----
\* C30: get(path, retries=n) ends with a response or with ConnectionError,
\* after at most n requests for the path, and the login it triggers never
\* runs into the recursion limit.
C30_GetTerminates ==
    /\ client.signal # "RecursionError"
    /\ client.requests <= client.retries
    /\ (pc = "get" /\ client.stack = <<>>) => client.signal \in {"Response", "ConnectionError"}

====
